---- MODULE Spec2Model ----
(***************************************************************************)
(* Model of the Medusa MCP server: the OpenAPI-to-tool compiler of the     *)
(* two services (MedusaAdminService, MedusaStoreService), the tool         *)
(* handlers they produce, and the startup sequence of main().              *)
(*                                                                         *)
(* Strings that the code takes apart (a `$ref`, a path template) are       *)
(* sequences of tokens, so that String.prototype.replace is modelled by    *)
(* what it does.  JSON objects with string keys are functions from keys    *)
(* to values where only the key set matters, and sequences of <<key,       *)
(* value>> pairs where the code depends on insertion order.                *)
(***************************************************************************)
EXTENDS Integers, Sequences, FiniteSets, TLC

VARIABLES
    storeJson,          \* ../oas/store.json : the public surface's document
    adminJson,          \* ../oas/admin.json : the privileged surface's document
    allowedToolsConfig, \* ./allowed-tools.json
    pc,                 \* position of main(), or of the harness of a pure function
    adminToken,         \* MedusaAdminService.adminToken
    tools,              \* main's local `tools`
    originalTools,      \* main's `tools` as it was before the allow-list filter
    registered,         \* the tools bound by server.tool(...)
    calls,              \* handler invocations suspended on their fetch
    fetches,            \* outbound requests issued so far, in order
    settled,            \* outcomes of finished invocations, in order
    thrown,             \* the error last thrown at startup, "" if none
    surface,            \* pure-function harness: which service compiles
    prop,               \* pure-function harness: the schema node compiled
    makeOptional,       \* pure-function harness: the optionality flag
    zod                 \* pure-function harness: the validator produced

vars == <<storeJson, adminJson, allowedToolsConfig, pc, adminToken, tools,
          originalTools,
          registered, calls, fetches, settled, thrown, surface, prop,
          makeOptional, zod>>

-----------------------------------------------------------------------------
(* Bounds of the model. *)

\* nesting depth of the schema nodes drawn as inputs
MaxDepth == 1

\* number of arguments of one tool invocation
MaxArgs == 3

\* number of paths of an interface document
MaxPaths == 2

\* number of tool invocations that overlap
MaxCalls == 2

-----------------------------------------------------------------------------
(* Strings as token sequences. *)

RECURSIVE IndexOf(_, _, _)
\* the first index >= i of token `pat` in `s`, or 0
IndexOf(s, pat, i) ==
    IF i > Len(s) THEN 0
    ELSE IF s[i] = pat THEN i
    ELSE IndexOf(s, pat, i + 1)

\* the first occurrence of `pat` replaced by the token sequence `rep`,
\* taken as it is
StrReplace(s, pat, rep) ==
    LET i == IndexOf(s, pat, 1) IN
    IF i = 0 THEN s
    ELSE SubSeq(s, 1, i - 1) \o rep \o SubSeq(s, i + 1, Len(s))

\* the token for the pattern made of a dollar sign and a grave accent (the
\* text before the match), which cannot be written in a string here
DollarBefore == "$(grave accent)"

\* the replacement string of String.prototype.replace with its dollar
\* patterns expanded, token by token: $$ is a dollar sign, $& the matched
\* text, DollarBefore the text before the match, $' the text after it;
\* every other token ($1 included, a string pattern having no groups)
\* stands for itself. A string is a sequence of tokens in which each dollar
\* pattern and each {name} placeholder is one token and no other token holds
\* a dollar sign or a brace
RECURSIVE ExpandReplacement(_, _, _, _)
ExpandReplacement(replacement, matched, before, after) ==
    IF replacement = <<>> THEN <<>>
    ELSE (CASE Head(replacement) = "$$" -> <<"$">>
            [] Head(replacement) = "$&" -> <<matched>>
            [] Head(replacement) = DollarBefore -> before
            [] Head(replacement) = "$'" -> after
            [] OTHER -> <<Head(replacement)>>)
         \o ExpandReplacement(Tail(replacement), matched, before, after)

\* String.prototype.replace(pat, replacement) with a string pattern and a
\* replacement string: the first occurrence only, the replacement expanded
JsReplace(s, pat, replacement) ==
    LET i == IndexOf(s, pat, 1) IN
    IF i = 0 THEN s
    ELSE SubSeq(s, 1, i - 1)
            \o ExpandReplacement(replacement, pat, SubSeq(s, 1, i - 1),
                                 SubSeq(s, i + 1, Len(s)))
            \o SubSeq(s, i + 1, Len(s))

-----------------------------------------------------------------------------
(* Schema nodes of an interface document. *)

RefPrefix == "#/components/schemas/"

NullNode == [kind |-> "null"]
RefNode(ref) == [kind |-> "ref", ref |-> ref]
TypeNode(t) == [kind |-> "schema", type |-> t]
ArrayNode(items) == [kind |-> "schema", type |-> "array", items |-> items]
ObjectNode(hasProperties, properties, hasRequired, required) ==
    [kind |-> "schema", type |-> "object",
     hasProperties |-> hasProperties, properties |-> properties,
     hasRequired |-> hasRequired, required |-> required]

\* a node without `type` that declares properties all the same
UntypedNode(properties) ==
    [kind |-> "schema", type |-> "undefined",
     hasProperties |-> TRUE, properties |-> properties,
     hasRequired |-> FALSE, required |-> {}]

\* an object node whose `required` is present but is no list (and no
\* string): a boolean, as in `required: true`
RequiredNotAList(hasProperties, properties) ==
    [kind |-> "schema", type |-> "object",
     hasProperties |-> hasProperties, properties |-> properties,
     hasRequired |-> TRUE, required |-> {}, requiredValue |-> TRUE]

\* node.properties is present (whatever the node's type)
HasProperties(node) ==
    /\ node.kind = "schema"
    /\ "hasProperties" \in DOMAIN node
    /\ node.hasProperties

\* an empty JSON object
EmptyMap == [k \in {} |-> NullNode]

Surfaces == {"store", "admin"}

\* the document a service closes over (storeJson / adminJson imports)
JsonOf(s) == IF s = "admin" THEN adminJson ELSE storeJson

-----------------------------------------------------------------------------
(* Validators (zod schemas). *)

ZAny == [z |-> "any", optional |-> FALSE]
ZString == [z |-> "string", optional |-> FALSE]
ZNumber == [z |-> "number", optional |-> FALSE]
ZBoolean == [z |-> "boolean", optional |-> FALSE]
ZArray(item) == [z |-> "array", optional |-> FALSE, item |-> item]
ZObject(shape) == [z |-> "object", optional |-> FALSE, shape |-> shape]
\* zodSchema.optional()
ZOptional(v) == [v EXCEPT !.optional = TRUE]

\* not a validator: the exception that left the compiler instead of one
ZThrown(error) == [z |-> "thrown", optional |-> FALSE, error |-> error]
IsThrown(v) == v.z = "thrown"

-----------------------------------------------------------------------------
(* resolveSchemaRef and convertSchemaPropertyToZod. *)

\* schema.$ref is truthy: present and not the empty string
HasRef(schema) == schema.kind = "ref" /\ schema.ref # <<>>

\* the document has components.schemas (taken as present when the document
\* does not say)
HasSchemas(jsonObj) ==
    "hasSchemas" \notin DOMAIN jsonObj \/ jsonObj.hasSchemas

\* the names every plain object inherits from Object.prototype
ObjectPrototypeNames ==
    {"constructor", "__proto__", "hasOwnProperty", "isPrototypeOf",
     "propertyIsEnumerable", "toLocaleString", "toString", "valueOf",
     "__defineGetter__", "__defineSetter__", "__lookupGetter__",
     "__lookupSetter__"}

\* the value of an inherited property (a function, or Object.prototype):
\* truthy, and without $ref, type, items, properties or required
InheritedNode(name) == [kind |-> "inherited", name |-> name]

\* the string a token sequence spells
RECURSIVE Spelled(_)
Spelled(tokens) ==
    IF tokens = <<>> THEN "" ELSE Head(tokens) \o Spelled(Tail(tokens))

\* the keys of the table that spell the same string as refPath (one at most,
\* the keys of an object being distinct strings)
KeysSpelled(schemas, refPath) ==
    {k \in DOMAIN schemas : Spelled(k) = Spelled(refPath)}

\* components?.schemas?.[refPath]: an own property of the table, or one it
\* inherits, or undefined
SchemasLookup(jsonObj, refPath) ==
    IF ~HasSchemas(jsonObj) THEN NullNode
    ELSE IF KeysSpelled(jsonObj.schemas, refPath) # {}
    THEN jsonObj.schemas[CHOOSE k \in KeysSpelled(jsonObj.schemas, refPath) :
                            TRUE]
    ELSE IF Spelled(refPath) \in ObjectPrototypeNames
    THEN InheritedNode(Spelled(refPath))
    ELSE NullNode

\* the lookup after stripping the prefix from a truthy $ref; one lookup,
\* `|| null` on a miss; a node without a truthy $ref is returned as it is
resolveSchemaRef(schema, jsonObj) ==
    IF schema.kind = "null" THEN NullNode
    ELSE IF HasRef(schema) THEN
        SchemasLookup(jsonObj, StrReplace(schema.ref, RefPrefix, <<>>))
    ELSE schema

\* resolvedProp.type, undefined on a node that has none
TypeOf(node) == IF node.kind = "schema" THEN node.type ELSE "undefined"

\* resolvedProp.required?.includes(key)
isRequired(resolvedProp, key) ==
    resolvedProp.hasRequired /\ key \in resolvedProp.required

\* resolvedProp.required?.includes is not a function: `required` is
\* neither undefined, nor an array, nor a string
includesThrows(resolvedProp) == "requiredValue" \in DOMAIN resolvedProp

itemOptional_Inherit(outerOptional) == outerOptional

\* the flag passed for array items: the literal `false`
itemOptional(outerOptional) == FALSE

\* acc[key] = value adds the key to the object literal it is made on, unless
\* the key is __proto__: that assignment goes to the prototype accessor and
\* leaves the object without such a key
SetsOwnKey(key) == key # "__proto__"

\* the keys the assignments have given an object, with their values
OwnEntries(assigned) ==
    [key \in {k \in DOMAIN assigned : SetsOwnKey(k)} |-> assigned[key]]

\* an exception left convertSchemaPropertyToZod while the schema was built
SchemaThrew(schema) == \E key \in DOMAIN schema : IsThrown(schema[key])

\* z.array(itemZodSchema), unless compiling the items threw
ArrayOf(itemZodSchema) ==
    IF IsThrown(itemZodSchema) THEN itemZodSchema ELSE ZArray(itemZodSchema)

\* z.object(nestedSchema), unless the reduce that builds it threw
ObjectOf(nestedSchema) ==
    IF SchemaThrew(nestedSchema) THEN ZThrown("TypeError")
    ELSE ZObject(OwnEntries(nestedSchema))

\* makeOptional ? zodSchema.optional() : zodSchema, when there is a zodSchema
OptionalIf(optional, zodSchema) ==
    IF IsThrown(zodSchema) THEN zodSchema
    ELSE IF optional THEN ZOptional(zodSchema) ELSE zodSchema

RECURSIVE convertSchemaPropertyToZod(_, _, _)

arrayCase(resolvedProp, outerOptional, json) ==
    IF resolvedProp.items.kind # "null" THEN
        LET itemSchema ==
                IF HasRef(resolvedProp.items)
                THEN resolveSchemaRef(resolvedProp.items, json)
                ELSE resolvedProp.items
        IN  IF itemSchema.kind # "null"
            THEN ArrayOf(convertSchemaPropertyToZod(
                            itemSchema, itemOptional(outerOptional), json))
            ELSE ZArray(ZAny)
    ELSE ZArray(ZAny)

\* the reduce over Object.entries(properties): an exception in the callback
\* (from `includes`, or from the compilation of a property) ends it
objectCase(resolvedProp, json) ==
    IF resolvedProp.hasProperties THEN
        IF DOMAIN resolvedProp.properties # {} /\ includesThrows(resolvedProp)
        THEN ZThrown("TypeError")
        ELSE ObjectOf([key \in DOMAIN resolvedProp.properties |->
                        convertSchemaPropertyToZod(
                            resolvedProp.properties[key],
                            ~isRequired(resolvedProp, key), json)])
    ELSE ZObject(EmptyMap)

convertSchemaPropertyToZod(p, optional, json) ==
    IF p.kind = "null" THEN (IF optional THEN ZOptional(ZAny) ELSE ZAny)
    ELSE
        LET resolvedProp ==
                IF HasRef(p) THEN resolveSchemaRef(p, json) ELSE p
        IN  IF resolvedProp.kind = "null"
            THEN (IF optional THEN ZOptional(ZAny) ELSE ZAny)
            ELSE
                LET type == TypeOf(resolvedProp)
                    zodSchema ==
                        CASE type = "string" -> ZString
                          [] type \in {"number", "integer"} -> ZNumber
                          [] type = "boolean" -> ZBoolean
                          [] type = "array" ->
                                arrayCase(resolvedProp, optional, json)
                          [] type = "object" -> objectCase(resolvedProp, json)
                          [] OTHER -> ZAny
                IN  OptionalIf(optional, zodSchema)

-----------------------------------------------------------------------------
(* Operations, path items and tools. *)

Methods == {"get", "post", "delete"}

\* a Parameter of an operation
Parameter(name, in, schema) == [name |-> name, in |-> in, schema |-> schema]

\* a parameter that carries its own marker `required: true`
RequiredParameter(name, in, schema) ==
    [name |-> name, in |-> in, schema |-> schema, required |-> TRUE]

\* an Operation; operationId "" stands for an absent or empty identifier,
\* requestBody is requestBody.content["application/json"].schema or NullNode
Operation(operationId, description, hasParameters, parameters, requestBody) ==
    [operationId |-> operationId, description |-> description,
     hasParameters |-> hasParameters, parameters |-> parameters,
     requestBody |-> requestBody]

NoDescription == [has |-> FALSE, text |-> ""]
Description(text) == [has |-> TRUE, text |-> text]

\* `parameters` as the code holds it: an array, or a value without .filter
ParamArray(list) == [isArray |-> TRUE, list |-> list]
NotAnArray == [isArray |-> FALSE, list |-> <<>>]

NoOperation ==
    [method |-> "get", name |-> "", description |-> NoDescription,
     parameters |-> ParamArray(<<>>), requestBodySchema |-> NullNode]

\* parameters ?? [] of the post and delete branches
ParametersOrEmpty(op) ==
    IF op.hasParameters THEN ParamArray(op.parameters) ELSE ParamArray(<<>>)

\* the get branch keeps whatever the operation has: refFunction.get.parameters
\* (store), refFunction.get.parameters ?? "" (admin); neither is an array
\* when the operation declares no parameters
ParametersOfGet(s, op) ==
    IF op.hasParameters THEN ParamArray(op.parameters) ELSE NotAnArray

\* the post branch: the JSON request body schema, resolved once
RequestBodySchemaOf(op, json) ==
    IF op.requestBody.kind # "null"
    THEN resolveSchemaRef(op.requestBody, json)
    ELSE NullNode

\* the if / else-if chain selecting the operation a path exposes; the
\* store service has no delete branch
ChooseOperation(s, refFunction) ==
    IF "get" \in DOMAIN refFunction THEN
        [method |-> "get",
         name |-> refFunction["get"].operationId,
         description |-> refFunction["get"].description,
         parameters |-> ParametersOfGet(s, refFunction["get"]),
         requestBodySchema |-> NullNode]
    ELSE IF "post" \in DOMAIN refFunction THEN
        [method |-> "post",
         name |-> refFunction["post"].operationId,
         description |-> refFunction["post"].description,
         parameters |-> ParametersOrEmpty(refFunction["post"]),
         requestBodySchema |->
            RequestBodySchemaOf(refFunction["post"], JsonOf(s))]
    ELSE IF s = "admin" /\ "delete" \in DOMAIN refFunction THEN
        [method |-> "delete",
         name |-> refFunction["delete"].operationId,
         description |-> refFunction["delete"].description,
         parameters |-> ParametersOrEmpty(refFunction["delete"]),
         requestBodySchema |-> NullNode]
    ELSE NoOperation

\* parameters.filter((p) => p.in != "header")
ParameterFilter(parameters) == SelectSeq(parameters, LAMBDA q : q.in # "header")

ParameterOptional_FromRequired(param) ==
    ~("required" \in DOMAIN param /\ param.required)

\* the flag a parameter is compiled with: convertSchemaPropertyToZod is
\* called with the schema alone, so makeOptional takes its default, true
ParameterOptional(param) == TRUE

\* the value the reduce computes for each of the filtered parameters, in
\* order, next to the name it is assigned to
ParameterValues(parameters, json) ==
    [i \in 1..Len(parameters) |->
        <<parameters[i].name,
          convertSchemaPropertyToZod(parameters[i].schema,
                                     ParameterOptional(parameters[i]), json)>>]

\* an exception left convertSchemaPropertyToZod in one of the assignments
EntriesThrew(entries) == \E i \in 1..Len(entries) : IsThrown(entries[i][2])

\* acc after acc[name] = value for each entry in turn: a later entry of the
\* same name replaces the earlier
RECURSIVE AssignAll(_)
AssignAll(entries) ==
    IF entries = <<>> THEN [k \in {} |-> ZAny]
    ELSE LET last == entries[Len(entries)]
             before == AssignAll(SubSeq(entries, 1, Len(entries) - 1))
         IN  IF SetsOwnKey(last[1]) THEN (last[1] :> last[2]) @@ before
             ELSE before

\* the accumulator the reduce over the parameters returns, or the exception
\* that left it
ParameterSchemaOf(parameterValues) ==
    IF EntriesThrew(parameterValues) THEN ZThrown("TypeError")
    ELSE AssignAll(parameterValues)

\* .reduce over the filtered parameters: acc[param.name] = convert(schema)
ParameterSchema(parameters, json) ==
    ParameterSchemaOf(ParameterValues(parameters, json))

\* requestBodySchema?.properties
BodyProperties(requestBodySchema) ==
    IF HasProperties(requestBodySchema)
    THEN requestBodySchema.properties
    ELSE EmptyMap

\* the value the reduce computes for each property of the request body
BodyValues(requestBodySchema, json) ==
    LET properties == BodyProperties(requestBodySchema) IN
    [key \in DOMAIN properties |->
        convertSchemaPropertyToZod(properties[key], TRUE, json)]

\* the accumulator the reduce over the body's properties returns, or the
\* exception that left it
BodySchemaOf(bodyValues) ==
    IF SchemaThrew(bodyValues) THEN ZThrown("TypeError")
    ELSE OwnEntries(bodyValues)

\* .reduce over the entries of the request body's properties:
\* acc[key] = convert(value)
BodySchema(requestBodySchema, json) ==
    BodySchemaOf(BodyValues(requestBodySchema, json))

\* {...parameterSchema, ...bodySchema}: the later spread wins
MergeSchemas(parameterSchema, bodySchema) == bodySchema @@ parameterSchema

\* name and description of the tool, per service
ToolName(s, name) == IF s = "admin" THEN "Admin" \o name ELSE name

ToolDescription(s, description) ==
    IF s = "admin"
    THEN Description("This tool helps store administors. "
                        \o (IF description.has THEN description.text
                            ELSE "undefined"))
    ELSE description

NoTool ==
    [name |-> "", description |-> NoDescription,
     inputSchema |-> [k \in {} |-> ZAny], surface |-> "store",
     refPath |-> <<>>, method |-> "get", parameters |-> <<>>,
     requestBodySchema |-> NullNode]

\* defineTool calls the callback it is given with zod and returns the tool
defineTool(result) == result

\* the object the callback of wrapPath returns, unless an exception left
\* convertSchemaPropertyToZod while either schema was built
ToolOf(s, refPath, op, parameterValues, bodyValues) ==
    IF EntriesThrew(parameterValues) \/ SchemaThrew(bodyValues)
    THEN [threw |-> TRUE, error |-> "TypeError", tool |-> NoTool]
    ELSE [threw |-> FALSE, error |-> "",
          tool |->
            [name |-> ToolName(s, op.name),
             description |-> ToolDescription(s, op.description),
             inputSchema |-> MergeSchemas(ParameterSchemaOf(parameterValues),
                                          BodySchemaOf(bodyValues)),
             surface |-> s, refPath |-> refPath, method |-> op.method,
             parameters |-> op.parameters.list,
             requestBodySchema |-> op.requestBodySchema]]

\* wrapPath: the tool of one path, or the error it throws
wrapPath(s, refPath, refFunction) ==
    LET op == ChooseOperation(s, refFunction) IN
    IF op.name = "" THEN
        defineTool([threw |-> TRUE,
                    error |-> IF s = "admin" THEN "No name found for path"
                              ELSE "No name found for the function",
                    tool |-> NoTool])
    ELSE IF ~op.parameters.isArray THEN
        defineTool([threw |-> TRUE,
                    error |-> "TypeError: parameters.filter is not a function",
                    tool |-> NoTool])
    ELSE
        defineTool(
            ToolOf(s, refPath, op,
                   ParameterValues(ParameterFilter(op.parameters.list),
                                   JsonOf(s)),
                   BodyValues(op.requestBodySchema, JsonOf(s))))

-----------------------------------------------------------------------------
(* The handler of a tool: argument routing and the outbound request. *)

\* argument values: strings (token sequences; Str is a string of one
\* token) and numbers
Text(tokens) == [t |-> "string", s |-> tokens]
Str(x) == Text(<<x>>)
Num(x) == [t |-> "number", n |-> x]

\* String(value)
JsString(value) ==
    IF value.t = "string" THEN value.s ELSE <<ToString(value.n)>>

\* process.env.PUBLISHABLE_KEY
PublishableKey == "pk_store"

\* parameters.find(p => p.name === key): the first match, or 0
RECURSIVE FindParameter(_, _, _)
FindParameter(parameters, key, i) ==
    IF i > Len(parameters) THEN 0
    ELSE IF parameters[i].name = key THEN i
    ELSE FindParameter(parameters, key, i + 1)

\* map[key] = value on one of the handler's maps, kept as the entries in
\* insertion order (the names of the arguments are distinct)
AssignEntry(map, entry) ==
    IF SetsOwnKey(entry[1]) THEN Append(map, entry) ELSE map

\* the body of Object.entries(input).forEach: where one argument goes
RouteEntry(tool, routed, entry) ==
    LET key == entry[1]
        bodyPropertyNames == DOMAIN BodyProperties(tool.requestBodySchema)
        i == FindParameter(tool.parameters, key, 1)
    IN  IF i # 0 THEN
            IF tool.parameters[i].in = "path"
            THEN [routed EXCEPT !.pathParams = AssignEntry(@, entry)]
            ELSE IF tool.parameters[i].in = "query"
            THEN [routed EXCEPT !.queryParams = AssignEntry(@, entry)]
            ELSE routed
        ELSE IF key \in bodyPropertyNames
        THEN [routed EXCEPT !.bodyParams = AssignEntry(@, entry)]
        ELSE routed

\* the three maps after the forEach over the arguments, in argument order
RECURSIVE RouteArguments(_, _)
RouteArguments(tool, input) ==
    IF input = <<>>
    THEN [pathParams |-> <<>>, queryParams |-> <<>>, bodyParams |-> <<>>]
    ELSE RouteEntry(tool,
                    RouteArguments(tool, SubSeq(input, 1, Len(input) - 1)),
                    input[Len(input)])

\* finalPath after replacing `{key}` for each routed path argument in turn;
\* each replace reads the path the replaces before it have left
RECURSIVE SubstitutePath(_, _)
SubstitutePath(refPath, pathParams) ==
    IF pathParams = <<>> THEN refPath
    ELSE LET entry == pathParams[Len(pathParams)]
             placeholder == "{" \o entry[1] \o "}"
         IN  JsReplace(
                SubstitutePath(refPath,
                               SubSeq(pathParams, 1, Len(pathParams) - 1)),
                placeholder,
                JsString(entry[2]))

\* new URLSearchParams(queryParams): the entries with their values as strings
QueryOf(queryParams) ==
    [i \in 1..Len(queryParams) |->
        <<queryParams[i][1], JsString(queryParams[i][2])>>]

HasBody_Always(method) == TRUE

\* the fetch options carry `body` in the else branch of method === "get"
HasBody(method) == method # "get"

\* the options of this.sdk.client.fetch(finalPath, {...})
FetchRequest(tool, input, token) ==
    LET routed == RouteArguments(tool, input) IN
    [method |-> tool.method,
     path |-> SubstitutePath(tool.refPath, routed.pathParams),
     query |-> QueryOf(routed.queryParams),
     hasBody |-> HasBody(tool.method),
     body |-> IF HasBody(tool.method) THEN routed.bodyParams ELSE <<>>,
     authorization |-> "Bearer " \o (IF tool.surface = "admin" THEN token
                                     ELSE PublishableKey)]

-----------------------------------------------------------------------------
(* Inputs of the schema compiler: nodes up to MaxDepth, and schema tables. *)

RefA == RefNode(<<RefPrefix, "A">>)
RefB == RefNode(<<RefPrefix, "B">>)
RefMissing == RefNode(<<RefPrefix, "Missing">>)
\* a reference written without the prefix, and one into another section
RefBareA == RefNode(<<"A">>)
RefOtherA == RefNode(<<"#/components/responses/", "A">>)
\* a reference that, the prefix taken out of its middle, spells a name every
\* object inherits, and an empty reference
RefConstructor == RefNode(<<"con", RefPrefix, "structor">>)
RefEmpty == RefNode(<<>>)

LeafNodes ==
    {NullNode, RefA, RefB, RefMissing, RefBareA, RefOtherA,
     RefConstructor, RefEmpty,
     TypeNode("string"), TypeNode("number"), TypeNode("integer"),
     TypeNode("boolean"), TypeNode("uuid"), TypeNode("undefined"),
     ArrayNode(NullNode), ObjectNode(FALSE, EmptyMap, FALSE, {})}

\* the second property of a two-property object is drawn from these
SiblingNodes == {TypeNode("string"), RefA, NullNode}

RequiredLists(keys) ==
    {[has |-> FALSE, list |-> {}]} \cup
    {[has |-> TRUE, list |-> r] : r \in SUBSET keys}

RECURSIVE SchemaNodes(_)
SchemaNodes(d) ==
    IF d = 0 THEN LeafNodes
    ELSE
        LET sub == SchemaNodes(d - 1) IN
        LeafNodes
        \cup {ArrayNode(n) : n \in sub}
        \cup UNION {{ObjectNode(TRUE, (k :> n), r.has, r.list) :
                        n \in sub, r \in RequiredLists({k})} :
                    k \in {"a", "__proto__"}}
        \cup {ObjectNode(TRUE, ("a" :> n) @@ ("b" :> m), r.has, r.list) :
                n \in sub, m \in SiblingNodes, r \in RequiredLists({"a", "b"})}

\* components.schemas of a document: acyclic tables over the names A and B
\* (entries may themselves be references), and an empty table
SchemaTables ==
    {[k \in {} |-> NullNode],
     (<<"A">> :> TypeNode("string"))
        @@ (<<"B">> :> ObjectNode(TRUE, ("a" :> TypeNode("number"))
                                          @@ ("b" :> TypeNode("string")),
                                  TRUE, {"a"})),
     (<<"A">> :> RefB) @@ (<<"B">> :> TypeNode("string")),
     (<<"A">> :> ArrayNode(RefB))
        @@ (<<"B">> :> ObjectNode(TRUE, ("a" :> RefMissing)
                                          @@ ("b" :> ArrayNode(NullNode)),
                                  TRUE, {"a"})),
     (<<"A">> :> ObjectNode(TRUE, ("a" :> RefB) @@ ("b" :> TypeNode("string")),
                            TRUE, {"b"}))
        @@ (<<"B">> :> ArrayNode(TypeNode("integer"))),
     (<<"A">> :> RefB) @@ (<<"B">> :> RefMissing)}

EmptyDocument == [paths |-> <<>>, schemas |-> [k \in {} |-> NullNode]]

\* a document without components.schemas
NoSchemasDocument ==
    [paths |-> <<>>, schemas |-> [k \in {} |-> NullNode],
     hasSchemas |-> FALSE]

\* the documents the schema compiler is run against
SchemaDocuments ==
    {[paths |-> <<>>, schemas |-> t] : t \in SchemaTables}
    \cup {NoSchemasDocument}

NoZod == [z |-> "none", optional |-> FALSE]

-----------------------------------------------------------------------------
(* The schema compiler applied to one node. *)

InitSchema ==
    /\ surface \in Surfaces
    /\ \E doc \in SchemaDocuments :
        /\ storeJson = IF surface = "store" THEN doc ELSE EmptyDocument
        /\ adminJson = IF surface = "admin" THEN doc ELSE EmptyDocument
    /\ prop \in SchemaNodes(MaxDepth)
    /\ makeOptional \in BOOLEAN
    /\ zod = NoZod
    /\ pc = "schema"
    /\ allowedToolsConfig = [allowAllTools |-> TRUE, hasAllowedTools |-> FALSE,
                             allowedTools |-> <<>>]
    /\ adminToken = ""
    /\ tools = <<>>
    /\ originalTools = <<>>
    /\ registered = <<>>
    /\ calls = {}
    /\ fetches = <<>>
    /\ settled = <<>>
    /\ thrown = ""

Convert ==
    /\ pc = "schema"
    /\ zod' = convertSchemaPropertyToZod(prop, makeOptional, JsonOf(surface))
    /\ pc' = "converted"
    /\ UNCHANGED <<originalTools,
                   storeJson, adminJson, allowedToolsConfig, adminToken, tools,
                   registered, calls, fetches, settled, thrown, surface,
                   prop, makeOptional>>

NextSchema == Convert

SpecSchema == InitSchema /\ [][NextSchema]_vars

-----------------------------------------------------------------------------
(* Properties of the schema compiler (checked under SpecSchema). *)

\* the table key a reference node names
RefPathOf(node) == StrReplace(node.ref, RefPrefix, <<>>)

\* C3: a node carrying a $ref that resolves in the schema table (whatever
\* the entry it resolves to, a reference included) compiles to the same
\* validator as the resolved node compiled directly with the same flag
C3_RefCompilesAsResolved ==
    (/\ pc = "converted"
     /\ prop.kind = "ref"
     /\ RefPathOf(prop) \in DOMAIN JsonOf(surface).schemas)
    => zod = convertSchemaPropertyToZod(
                JsonOf(surface).schemas[RefPathOf(prop)], makeOptional,
                JsonOf(surface))

\* the nodes the compiler visits, walked next to the validator it returned:
\* every object node with declared properties yields an object validator
\* over the same names, a name being non-optional iff it is required
RECURSIVE ObjectsFollowRequired(_, _, _)
ObjectsFollowRequired(node, v, json) ==
    LET r == IF node.kind = "ref" THEN resolveSchemaRef(node, json) ELSE node
    IN  IF r.kind # "schema" THEN TRUE
        ELSE IF r.type = "object" /\ r.hasProperties THEN
            /\ v.z = "object"
            /\ DOMAIN v.shape = DOMAIN r.properties
            /\ \A k \in DOMAIN r.properties :
                /\ ~v.shape[k].optional <=> (r.hasRequired /\ k \in r.required)
                /\ ObjectsFollowRequired(r.properties[k], v.shape[k], json)
        ELSE IF r.type = "array" /\ r.items.kind # "null" THEN
            LET i == IF r.items.kind = "ref"
                     THEN resolveSchemaRef(r.items, json) ELSE r.items
            IN  \/ i.kind = "null"
                \/ v.z = "array" /\ ObjectsFollowRequired(i, v.item, json)
        ELSE TRUE

\* C4: in every object node compiled, at any depth, a declared property is
\* non-optional iff its name is in that node's `required` list (an absent
\* list making every property optional)
C4_RequiredIffNonOptional ==
    pc = "converted" => ObjectsFollowRequired(prop, zod, JsonOf(surface))

\* every array node the compiler visits yields an array validator whose
\* item validator is not optional
RECURSIVE ArrayItemsNotOptional(_, _, _)
ArrayItemsNotOptional(node, v, json) ==
    LET r == IF node.kind = "ref" THEN resolveSchemaRef(node, json) ELSE node
    IN  IF r.kind # "schema" THEN TRUE
        ELSE IF r.type = "array" THEN
            /\ v.z = "array"
            /\ ~v.item.optional
            /\ LET i == IF r.items.kind = "ref"
                        THEN resolveSchemaRef(r.items, json) ELSE r.items
               IN  i.kind = "null" \/ ArrayItemsNotOptional(i, v.item, json)
        ELSE IF r.type = "object" /\ r.hasProperties THEN
            /\ v.z = "object"
            /\ DOMAIN v.shape \subseteq DOMAIN r.properties
            /\ \A k \in DOMAIN v.shape :
                ArrayItemsNotOptional(r.properties[k], v.shape[k], json)
        ELSE TRUE

\* C5: the item validator of every array node compiled is never optional,
\* whatever the array's own optionality and whatever its `items` is
C5_ArrayItemsNeverOptional ==
    pc = "converted" => ArrayItemsNotOptional(prop, zod, JsonOf(surface))

\* an array compiled as optional whose items is a reference that resolves
\* to an object
C5_Witness ==
    /\ pc = "converted"
    /\ makeOptional
    /\ prop.kind = "schema" /\ prop.type = "array"
    /\ prop.items.kind = "ref"
    /\ zod.optional
    /\ zod.item.z = "object"
    /\ ~zod.item.optional

-----------------------------------------------------------------------------
(* The schema compiler applied to malformed nodes. *)

\* object nodes whose `required` is no list, alone and nested one level
\* down in an array, in an object and behind a missing `type`
NotAListNodes ==
    LET bad == {RequiredNotAList(TRUE, ("a" :> n)) : n \in LeafNodes}
               \cup {RequiredNotAList(TRUE, EmptyMap),
                     RequiredNotAList(FALSE, EmptyMap)}
    IN  bad
        \cup {ArrayNode(n) : n \in bad}
        \cup {ObjectNode(TRUE, ("a" :> n), r.has, r.list) :
                n \in bad, r \in RequiredLists({"a"})}

MalformedNodes == SchemaNodes(MaxDepth) \cup NotAListNodes

InitMalformed ==
    /\ surface \in Surfaces
    /\ \E doc \in SchemaDocuments :
        /\ storeJson = IF surface = "store" THEN doc ELSE EmptyDocument
        /\ adminJson = IF surface = "admin" THEN doc ELSE EmptyDocument
    /\ prop \in MalformedNodes
    /\ makeOptional \in BOOLEAN
    /\ zod = NoZod
    /\ pc = "schema"
    /\ allowedToolsConfig = [allowAllTools |-> TRUE, hasAllowedTools |-> FALSE,
                             allowedTools |-> <<>>]
    /\ adminToken = ""
    /\ tools = <<>>
    /\ originalTools = <<>>
    /\ registered = <<>>
    /\ calls = {}
    /\ fetches = <<>>
    /\ settled = <<>>
    /\ thrown = ""

NextMalformed == Convert

SpecMalformed == InitMalformed /\ [][NextMalformed]_vars

\* the accept-anything validator, optional iff the flag is set
AcceptAnything(flag) == IF flag THEN ZOptional(ZAny) ELSE ZAny

\* the node is one of the four malformations: null or absent, a reference
\* that does not resolve, an array without items, a type that is missing
\* or not one of the six
RecognizedTypes ==
    {"string", "number", "integer", "boolean", "array", "object"}

Degrades(node, json) ==
    \/ node.kind = "null"
    \/ node.kind = "ref"
        /\ (~HasSchemas(json) \/ RefPathOf(node) \notin DOMAIN json.schemas)
    \/ node.kind = "schema" /\ node.type = "array" /\ node.items.kind = "null"
    \/ node.kind = "schema" /\ node.type \notin RecognizedTypes

\* compilation returns a validator, whatever the node
CompilationNeverThrows == pc = "converted" => ~IsThrown(zod)

\* C11: compiling a malformed acyclic schema never raises an error, and a
\* node that is null or absent, a reference that does not resolve, an array
\* without items, or a node whose type is missing or unrecognized compiles
\* to the accept-anything validator, optional iff the flag is set
C11_MalformedDegradesToAny ==
    pc = "converted" =>
        /\ ~IsThrown(zod)
        /\ Degrades(prop, JsonOf(surface)) => zod = AcceptAnything(makeOptional)

-----------------------------------------------------------------------------
(* Inputs of the tool compiler: operations and path items. *)

OperationIdOf(m) ==
    CASE m = "get" -> "GetItem" [] m = "post" -> "PostItem"
      [] OTHER -> "DeleteItem"

\* parameter lists: empty; path, query and header parameters; and a list
\* whose names are declared at other locations
ParameterLists ==
    {<<>>,
     <<Parameter("id", "path", TypeNode("string")),
       Parameter("q", "query", TypeNode("integer")),
       Parameter("name", "header", TypeNode("string"))>>,
     <<Parameter("name", "query", TypeNode("boolean")),
       Parameter("id", "header", TypeNode("string")),
       Parameter("q", "path", RefMissing),
       Parameter("__proto__", "query", TypeNode("string"))>>,
     <<RequiredParameter("id", "path", TypeNode("string")),
       RequiredParameter("q", "query", ArrayNode(TypeNode("integer")))>>}

ItemProperties ==
    ("name" :> TypeNode("string")) @@ ("id" :> TypeNode("number"))
        @@ ("tags" :> ArrayNode(TypeNode("string")))

\* request body schemas: none, a reference, an inline node without `type`
RequestBodies(m) ==
    IF m = "post" THEN {NullNode, RefA, UntypedNode(ItemProperties)}
    ELSE {NullNode, RefA}

Operations(m) ==
    {Operation(id, Description(m \o " an item"), FALSE, <<>>, b) :
        id \in {"", OperationIdOf(m)}, b \in RequestBodies(m)}
    \cup {Operation(id, Description(m \o " an item"), TRUE, ps, b) :
        id \in {"", OperationIdOf(m)}, ps \in ParameterLists,
        b \in RequestBodies(m)}
    \cup {Operation(OperationIdOf(m), NoDescription, TRUE, <<>>, NullNode)}

\* the operations a path item may hold for method m, when it holds one
OperationsIn(m, ms) ==
    IF m \in ms THEN Operations(m)
    ELSE {Operation("", NoDescription, FALSE, <<>>, NullNode)}

\* a path item: an operation for each method of a non-empty set of methods
PathItems ==
    UNION {{[m \in ms |-> CASE m = "get" -> g [] m = "post" -> p [] OTHER -> d] :
                g \in OperationsIn("get", ms), p \in OperationsIn("post", ms),
                d \in OperationsIn("delete", ms)} :
           ms \in SUBSET Methods \ {{}}}

\* schema tables of the documents compiled: A an object; A a reference to B
ToolSchemaTables ==
    {(<<"A">> :> ObjectNode(TRUE, ItemProperties, TRUE, {"name"})),
     (<<"A">> :> RefB)
        @@ (<<"B">> :> ObjectNode(TRUE, ItemProperties, TRUE, {"name"}))}

ItemPath == <<"/items/", "{id}">>

\* a document with one path
OnePathDocument(path, item, table) ==
    [paths |-> <<[path |-> path, item |-> item]>>, schemas |-> table]

-----------------------------------------------------------------------------
(* wrapPath applied to one path of one surface's document. *)

InitWrap ==
    /\ surface \in Surfaces
    /\ \E t \in ToolSchemaTables :
       \E item \in PathItems :
        /\ storeJson = IF surface = "store"
                       THEN OnePathDocument(ItemPath, item, t)
                       ELSE EmptyDocument
        /\ adminJson = IF surface = "admin"
                       THEN OnePathDocument(ItemPath, item, t)
                       ELSE EmptyDocument
    /\ prop = NullNode
    /\ makeOptional = TRUE
    /\ zod = NoZod
    /\ pc = "wrap"
    /\ allowedToolsConfig = [allowAllTools |-> TRUE, hasAllowedTools |-> FALSE,
                             allowedTools |-> <<>>]
    /\ adminToken = ""
    /\ tools = <<>>
    /\ originalTools = <<>>
    /\ registered = <<>>
    /\ calls = {}
    /\ fetches = <<>>
    /\ settled = <<>>
    /\ thrown = ""

\* the path being compiled
WrappedPath == JsonOf(surface).paths[1]

Wrap ==
    /\ pc = "wrap"
    /\ LET r == wrapPath(surface, WrappedPath.path, WrappedPath.item) IN
        /\ pc' = IF r.threw THEN "threw" ELSE "wrapped"
        /\ tools' = IF r.threw THEN <<>> ELSE <<r.tool>>
        /\ thrown' = r.error
    /\ UNCHANGED <<originalTools,
                   storeJson, adminJson, allowedToolsConfig, adminToken,
                   registered, calls, fetches, settled, surface, prop,
                   makeOptional, zod>>

NextWrap == Wrap

SpecWrap == InitWrap /\ [][NextWrap]_vars

-----------------------------------------------------------------------------
(* Properties of the tool compiler (checked under SpecWrap). *)

\* the method the precedence get, post, delete selects for a path item
PrecedenceMethod(item) ==
    IF "get" \in DOMAIN item THEN "get"
    ELSE IF "post" \in DOMAIN item THEN "post"
    ELSE "delete"

PrecedenceOperation(item) == item[PrecedenceMethod(item)]

\* C2: on either surface wrapPath exposes the operation chosen in the order
\* get, post, delete, with that operation's identifier, description and
\* parameters (stated for operations that carry an identifier and a
\* parameter list)
C2_PrecedenceGetPostDelete ==
    (/\ pc \in {"wrapped", "threw"}
     /\ PrecedenceOperation(WrappedPath.item).operationId # ""
     /\ PrecedenceOperation(WrappedPath.item).hasParameters)
    => /\ pc = "wrapped"
       /\ Len(tools) = 1
       /\ tools[1].method = PrecedenceMethod(WrappedPath.item)
       /\ tools[1].name =
            ToolName(surface, PrecedenceOperation(WrappedPath.item).operationId)
       /\ tools[1].description =
            ToolDescription(surface,
                            PrecedenceOperation(WrappedPath.item).description)
       /\ tools[1].parameters = PrecedenceOperation(WrappedPath.item).parameters

\* names of the parameters of a list that are not header parameters
NonHeaderNames(parameters) ==
    {parameters[i].name : i \in {j \in 1..Len(parameters) :
                                    parameters[j].in # "header"}}

\* C10: the keys of a compiled tool's input schema are the names of the
\* non-header parameters together with the property names of the resolved
\* request body schema, and a name that is a body property carries the
\* validator compiled from the body property
C10_InputSchemaKeys ==
    pc = "wrapped" =>
        LET tool == tools[1]
            properties == BodyProperties(tool.requestBodySchema)
        IN  /\ DOMAIN tool.inputSchema =
                NonHeaderNames(tool.parameters) \cup DOMAIN properties
            /\ \A k \in DOMAIN properties :
                tool.inputSchema[k] =
                    convertSchemaPropertyToZod(properties[k], TRUE,
                                               JsonOf(surface))

\* C13: every field of a compiled tool's input schema is optional, be it
\* compiled from a path or query parameter (marked required or not) or from
\* a property of the request body (named in its `required` list or not)
C13_TopLevelFieldsOptional ==
    pc = "wrapped" =>
        \A k \in DOMAIN tools[1].inputSchema : tools[1].inputSchema[k].optional

\* a post tool whose path parameter `id` and query parameter `q` are marked
\* required and whose request body, given by reference, lists `name` as
\* required: id, q, name and tags are all optional fields
C13_Witness ==
    /\ pc = "wrapped"
    /\ tools[1].method = "post"
    /\ Len(tools[1].parameters) = 2
    /\ \A i \in 1..2 : "required" \in DOMAIN tools[1].parameters[i]
                          /\ tools[1].parameters[i].required
    /\ tools[1].parameters[1].in = "path"
    /\ tools[1].requestBodySchema.kind = "schema"
    /\ tools[1].requestBodySchema.hasRequired
    /\ "name" \in tools[1].requestBodySchema.required
    /\ DOMAIN tools[1].inputSchema = {"id", "q", "name", "tags"}
    /\ tools[1].inputSchema["q"] = ZOptional(ZArray(ZNumber))
    /\ tools[1].inputSchema["name"] = ZOptional(ZString)
    /\ tools[1].inputSchema["id"].optional

-----------------------------------------------------------------------------
(* One tool and its handler, invoked with a flat argument map. *)

\* the path items whose tools are invoked
HandlerItems ==
    {\* GET /ping without parameters
     ("get" :> Operation("Ping", NoDescription, TRUE, <<>>, NullNode)),
     \* path, query and header parameters, one of them named __proto__
     ("get" :> Operation("GetItem", Description("get an item"), TRUE,
                <<Parameter("id", "path", TypeNode("string")),
                  Parameter("q", "query", TypeNode("integer")),
                  Parameter("name", "header", TypeNode("string")),
                  Parameter("__proto__", "query", TypeNode("string"))>>,
                NullNode)),
     \* a path parameter and the body fields name, id, tags and __proto__
     ("post" :> Operation("PostItem", Description("post an item"), TRUE,
                <<Parameter("id", "path", TypeNode("string"))>>,
                UntypedNode(ItemProperties
                            @@ ("__proto__" :> TypeNode("string"))))),
     \* the body given by reference, next to parameters of all locations
     ("post" :> Operation("PostItem", Description("post an item"), TRUE,
                <<Parameter("id", "path", TypeNode("string")),
                  Parameter("q", "query", TypeNode("integer")),
                  Parameter("name", "header", TypeNode("string"))>>,
                RefA)),
     \* two path parameters
     ("post" :> Operation("PostItem", NoDescription, TRUE,
                <<Parameter("q", "path", TypeNode("integer")),
                  Parameter("id", "path", TypeNode("string"))>>,
                RefA)),
     ("delete" :> Operation("DeleteItem", NoDescription, TRUE,
                <<Parameter("id", "path", TypeNode("string")),
                  Parameter("q", "query", TypeNode("integer"))>>,
                NullNode))}

\* path templates: no placeholder, one, the same one twice, two
HandlerPaths ==
    {<<"/ping">>, ItemPath, <<"/items/", "{id}", "/copy/", "{id}">>,
     <<"/items/", "{id}", "/", "{q}">>}

\* the values an argument of a given name takes
ArgumentValues(key) ==
    CASE key = "id" -> {Str("42"), Str("$&"), Str("{q}"), Str("$'"),
                        Str(DollarBefore), Text(<<"a", "$&", "b">>),
                        Text(<<"$$", "x">>), Text(<<"x", "{q}">>)}
      [] key = "q" -> {Num(7)}
      [] key = "name" -> {Str("widget")}
      [] OTHER -> {Str("x")}

ArgumentNames == {"id", "q", "name", "extra", "__proto__"}

\* flat argument maps in insertion order: up to n entries, names distinct
RECURSIVE Inputs(_)
Inputs(n) ==
    IF n = 0 THEN {<<>>}
    ELSE LET shorter == Inputs(n - 1) IN
         shorter \cup
         UNION {UNION {{Append(in, <<k, v>>) : v \in ArgumentValues(k)} :
                        k \in ArgumentNames \ {in[i][1] : i \in 1..Len(in)}} :
                in \in shorter}

InitHandler ==
    /\ surface \in Surfaces
    /\ \E t \in ToolSchemaTables, item \in HandlerItems, path \in HandlerPaths :
        /\ storeJson = IF surface = "store"
                       THEN OnePathDocument(path, item, t) ELSE EmptyDocument
        /\ adminJson = IF surface = "admin"
                       THEN OnePathDocument(path, item, t) ELSE EmptyDocument
    /\ prop = NullNode
    /\ makeOptional = TRUE
    /\ zod = NoZod
    /\ pc = "wrap"
    /\ allowedToolsConfig = [allowAllTools |-> TRUE, hasAllowedTools |-> FALSE,
                             allowedTools |-> <<>>]
    /\ adminToken = "jwt"
    /\ tools = <<>>
    /\ originalTools = <<>>
    /\ registered = <<>>
    /\ calls = {}
    /\ fetches = <<>>
    /\ settled = <<>>
    /\ thrown = ""

\* the requests one run of the handler issues before it suspends: the one
\* this.sdk.client.fetch of the branch taken
RequestsOf(tool, input, token) == <<FetchRequest(tool, input, token)>>

\* the handler runs up to its await: the arguments are routed, the path is
\* substituted and the request is issued
Invoke ==
    /\ pc = "wrapped"
    /\ calls = {}
    /\ settled = <<>>
    /\ \E i \in 1..Len(tools), input \in Inputs(MaxArgs) :
        LET routed == RouteArguments(tools[i], input) IN
        /\ calls' = {[tool |-> i, input |-> input,
                      pathParams |-> routed.pathParams,
                      queryParams |-> routed.queryParams,
                      bodyParams |-> routed.bodyParams,
                      finalPath |-> SubstitutePath(tools[i].refPath,
                                                   routed.pathParams)]}
        /\ fetches' = RequestsOf(tools[i], input, adminToken)
    /\ UNCHANGED <<originalTools,
                   storeJson, adminJson, allowedToolsConfig, pc, adminToken,
                   tools, registered, settled, thrown, surface, prop,
                   makeOptional, zod>>

\* the awaited fetch resolves or rejects and the handler returns the
\* response, or fails with the error, as it is
Settle ==
    /\ calls # {}
    /\ \E c \in calls, outcome \in {"resolved", "rejected"} :
        /\ calls' = calls \ {c}
        /\ settled' = <<[tool |-> c.tool, input |-> c.input,
                         outcome |-> outcome,
                         of |-> fetches[Len(fetches)]]>>
    /\ UNCHANGED <<originalTools,
                   storeJson, adminJson, allowedToolsConfig, pc, adminToken,
                   tools, registered, fetches, thrown, surface, prop,
                   makeOptional, zod>>

\* the caller has taken the outcome; nothing of the invocation is kept
Return ==
    /\ settled # <<>>
    /\ settled' = <<>>
    /\ fetches' = <<>>
    /\ UNCHANGED <<originalTools,
                   storeJson, adminJson, allowedToolsConfig, pc, adminToken,
                   tools, registered, calls, thrown, surface, prop,
                   makeOptional, zod>>

NextHandler == Wrap \/ Invoke \/ Settle \/ Return

SpecHandler == InitHandler /\ [][NextHandler]_vars

-----------------------------------------------------------------------------
(* Properties of the handler (checked under SpecHandler). *)

\* some parameter of the list has this name and this location
DeclaredAt(parameters, key, location) ==
    \E i \in 1..Len(parameters) :
        parameters[i].name = key /\ parameters[i].in = location

\* the arguments of `input` whose name is a parameter at `location`
ArgumentsAt(tool, input, location) ==
    SelectSeq(input, LAMBDA e : DeclaredAt(tool.parameters, e[1], location))

\* the arguments that are no path or query parameter and name a property of
\* the request body
ArgumentsOfBody(tool, input) ==
    SelectSeq(input, LAMBDA e :
        /\ ~DeclaredAt(tool.parameters, e[1], "path")
        /\ ~DeclaredAt(tool.parameters, e[1], "query")
        /\ e[1] \in DOMAIN BodyProperties(tool.requestBodySchema))

\* C1: of the arguments of an invocation, those named like a path parameter
\* go to the path substitution, those named like a query parameter to the
\* query, and of the others those named like a request body property go to
\* the body; the rest is dropped
C1_RoutingByLocation ==
    \A c \in calls :
        /\ c.pathParams = ArgumentsAt(tools[c.tool], c.input, "path")
        /\ c.queryParams = ArgumentsAt(tools[c.tool], c.input, "query")
        /\ c.bodyParams = ArgumentsOfBody(tools[c.tool], c.input)

\* the request an invocation has issued is the one its routing calls for
RequestOfCall(c, request) ==
    /\ request.method = tools[c.tool].method
    /\ request.path = c.finalPath
    /\ request.hasBody <=> tools[c.tool].method # "get"
    /\ request.body = IF request.hasBody THEN c.bodyParams ELSE <<>>
    \* /items/{id} with id = "42" or 7 is /items/42 or /items/7
    /\ (/\ tools[c.tool].refPath = ItemPath
        /\ \E i \in 1..Len(c.pathParams) :
            c.pathParams[i][1] = "id" /\ c.pathParams[i][2] = Str("42"))
       => request.path = <<"/items/", "42">>
    \* the tool of {get: {operationId: "Ping", parameters: []}} on /ping
    /\ (/\ tools[c.tool].name \in {"Ping", "AdminPing"}
        /\ tools[c.tool].refPath = <<"/ping">>)
       => /\ request.method = "get"
          /\ request.path = <<"/ping">>
          /\ request.query = <<>>
          /\ ~request.hasBody

\* C9: an invocation issues exactly one request, with the tool's method and
\* the substituted path, carrying the routed body fields iff the method is
\* not get, and ends with that request's outcome without another request
C9_OneRequestPerInvocation ==
    /\ \A c \in calls : Len(fetches) = 1 /\ RequestOfCall(c, fetches[1])
    /\ settled # <<>> =>
        /\ Len(fetches) = 1
        /\ settled[1].of = fetches[1]
        /\ settled[1].outcome \in {"resolved", "rejected"}
    /\ (calls = {} /\ settled = <<>>) => fetches = <<>>

\* a post whose request was rejected: one request, carrying the body field
\* `name`, and no second request
C9_Witness ==
    /\ settled # <<>>
    /\ settled[1].outcome = "rejected"
    /\ tools[settled[1].tool].method = "post"
    /\ Len(fetches) = 1
    /\ fetches[1].hasBody
    /\ fetches[1].body = <<<<"name", Str("widget")>>>>
    /\ fetches[1].path = <<"/items/", "42">>

-----------------------------------------------------------------------------
(* defineTools: the tools of a surface's document. *)

\* defineTools: wrapPath over the paths in document order; the first error
\* thrown ends it
DefineTools(s) ==
    LET paths == JsonOf(s).paths
        results == [i \in 1..Len(paths) |->
                        wrapPath(s, paths[i].path, paths[i].item)]
        failed == {i \in 1..Len(paths) : results[i].threw}
    IN  IF failed # {}
        THEN [threw |-> TRUE,
              error |-> results[CHOOSE i \in failed :
                                    \A j \in failed : i <= j].error,
              tools |-> <<>>]
        ELSE [threw |-> FALSE, error |-> "",
              tools |-> [i \in 1..Len(paths) |-> results[i].tool]]

-----------------------------------------------------------------------------
(* Overlapping invocations of the handlers of one surface's tools. *)

\* three empty maps
EmptyMaps == [pathParams |-> <<>>, queryParams |-> <<>>, bodyParams |-> <<>>]

NewMaps_Shared(shared) == shared

\* the maps a handler declares on entry (const queryParams, pathParams,
\* bodyParams = {}): new objects, whatever the maps of the invocations
\* before it hold
NewMaps(shared) == EmptyMaps

\* the forEach over the arguments, filling the maps it is given
RECURSIVE RouteInto(_, _, _)
RouteInto(tool, routed, input) ==
    IF input = <<>> THEN routed
    ELSE RouteEntry(tool,
                    RouteInto(tool, routed, SubSeq(input, 1, Len(input) - 1)),
                    input[Len(input)])

\* the options of the fetch, from the handler's locals
IssuedRequest(tool, routed, finalPath, token) ==
    [method |-> tool.method,
     path |-> finalPath,
     query |-> QueryOf(routed.queryParams),
     hasBody |-> HasBody(tool.method),
     body |-> IF HasBody(tool.method) THEN routed.bodyParams ELSE <<>>,
     authorization |-> "Bearer " \o (IF tool.surface = "admin" THEN token
                                     ELSE PublishableKey)]

\* a document with a post and a get tool
TwoPathDocument(body, table) ==
    [paths |->
        <<[path |-> ItemPath, item |->
            ("post" :> Operation("PostItem", Description("post an item"), TRUE,
                        <<Parameter("id", "path", TypeNode("string")),
                          Parameter("q", "query", TypeNode("integer"))>>,
                        body))],
          [path |-> <<"/items/", "{id}", "/", "{q}">>, item |->
            ("get" :> Operation("GetItem", Description("get an item"), TRUE,
                        <<Parameter("id", "path", TypeNode("string")),
                          Parameter("q", "query", TypeNode("integer")),
                          Parameter("name", "header", TypeNode("string"))>>,
                        NullNode))]>>,
     schemas |-> table]

\* the argument maps of the overlapping invocations
ConcurrentInputs ==
    {<<>>,
     <<<<"id", Str("42")>>, <<"name", Str("widget")>>, <<"extra", Str("x")>>>>,
     <<<<"q", Num(7)>>, <<"id", Str("$&")>>>>,
     <<<<"name", Str("widget")>>, <<"tags", Str("x")>>, <<"id", Str("{q}")>>>>}

InitConcurrent ==
    /\ surface \in Surfaces
    /\ \E t \in ToolSchemaTables, b \in {RefA, UntypedNode(ItemProperties)} :
        /\ storeJson = IF surface = "store"
                       THEN TwoPathDocument(b, t) ELSE EmptyDocument
        /\ adminJson = IF surface = "admin"
                       THEN TwoPathDocument(b, t) ELSE EmptyDocument
    /\ prop = NullNode
    /\ makeOptional = TRUE
    /\ zod = NoZod
    /\ pc = "wrap"
    /\ allowedToolsConfig = [allowAllTools |-> TRUE, hasAllowedTools |-> FALSE,
                             allowedTools |-> <<>>]
    /\ adminToken = "jwt"
    /\ tools = <<>>
    /\ originalTools = <<>>
    /\ registered = <<>>
    /\ calls = {}
    /\ fetches = <<>>
    /\ settled = <<>>
    /\ thrown = ""

\* defineTools of the surface's service
Define ==
    /\ pc = "wrap"
    /\ LET r == DefineTools(surface) IN
        /\ pc' = IF r.threw THEN "threw" ELSE "wrapped"
        /\ tools' = r.tools
        /\ thrown' = r.error
    /\ UNCHANGED <<originalTools,
                   storeJson, adminJson, allowedToolsConfig, adminToken,
                   registered, calls, fetches, settled, surface, prop,
                   makeOptional, zod>>

\* the maps of the invocation started last, empty when there is none
LastMaps ==
    IF calls = {} THEN EmptyMaps
    ELSE LET c == CHOOSE x \in calls : \A y \in calls : y.id <= x.id
         IN  [pathParams |-> c.pathParams, queryParams |-> c.queryParams,
              bodyParams |-> c.bodyParams]

\* a handler is entered while others await their fetch, and runs without
\* suspending up to its own await: its maps are filled, its path is
\* substituted and its request is issued
HandlerStart ==
    /\ pc = "wrapped"
    /\ Cardinality(calls) < MaxCalls
    /\ \E i \in 1..Len(tools), input \in ConcurrentInputs :
        LET id == Cardinality(calls) + 1
            routed == RouteInto(tools[i], NewMaps(LastMaps), input)
            finalPath == SubstitutePath(tools[i].refPath, routed.pathParams)
            request == IssuedRequest(tools[i], routed, finalPath, adminToken)
        IN  /\ calls' = calls \cup
                    {[id |-> id, tool |-> i, input |-> input,
                      pathParams |-> routed.pathParams,
                      queryParams |-> routed.queryParams,
                      bodyParams |-> routed.bodyParams,
                      finalPath |-> finalPath,
                      status |-> "awaiting", response |-> 0]}
            /\ fetches' = Append(fetches, [id |-> id, request |-> request])
    /\ UNCHANGED <<originalTools,
                   storeJson, adminJson, allowedToolsConfig, pc, adminToken,
                   tools, registered, settled, thrown, surface, prop,
                   makeOptional, zod>>

\* the fetch of one of the awaiting handlers settles, in any order, and
\* that handler returns the response (or fails with the error) of its own
\* fetch
HandlerResume ==
    /\ \E c \in calls, outcome \in {"resolved", "rejected"} :
        /\ c.status = "awaiting"
        /\ calls' = (calls \ {c}) \cup
                    {[c EXCEPT !.status = outcome, !.response = c.id]}
    /\ UNCHANGED <<originalTools,
                   storeJson, adminJson, allowedToolsConfig, pc, adminToken,
                   tools, registered, fetches, settled, thrown, surface, prop,
                   makeOptional, zod>>

NextConcurrent == Define \/ HandlerStart \/ HandlerResume

SpecConcurrent == InitConcurrent /\ [][NextConcurrent]_vars

-----------------------------------------------------------------------------
(* Properties of overlapping invocations (checked under SpecConcurrent). *)

\* the request the log holds for an invocation
RequestIssuedBy(id) ==
    LET k == CHOOSE k \in 1..Len(fetches) : fetches[k].id = id
    IN  fetches[k].request

\* C12: whatever the interleaving of the invocations of the same or of
\* different tools, each invocation has its own maps and final path, and
\* issues the one request it issues when run alone with its arguments; the
\* compiled tools stay what defineTools made of the document
C12_InvocationsDoNotInterfere ==
    /\ Len(fetches) = Cardinality(calls)
    /\ \A c \in calls :
        LET alone == RouteArguments(tools[c.tool], c.input) IN
        /\ Cardinality({k \in 1..Len(fetches) : fetches[k].id = c.id}) = 1
        /\ RequestIssuedBy(c.id)
                = FetchRequest(tools[c.tool], c.input, adminToken)
        /\ c.pathParams = alone.pathParams
        /\ c.queryParams = alone.queryParams
        /\ c.bodyParams = alone.bodyParams
        /\ c.finalPath = SubstitutePath(tools[c.tool].refPath,
                                        alone.pathParams)
        /\ c.status # "awaiting" => c.response = c.id
    /\ pc = "wrapped" => tools = DefineTools(surface).tools

\* two invocations of the same tool with different arguments overlap, the
\* one started second has settled while the first still awaits, and both
\* have routed arguments to the path and to the body
C12_Witness ==
    \E c1, c2 \in calls :
        /\ c1.id < c2.id
        /\ c1.tool = c2.tool
        /\ c1.input # c2.input
        /\ c1.status = "awaiting"
        /\ c2.status = "resolved"
        /\ c1.pathParams # <<>> /\ c1.bodyParams # <<>>
        /\ c2.pathParams # <<>> /\ c2.bodyParams # <<>>
        /\ RequestIssuedBy(c1.id) # RequestIssuedBy(c2.id)

-----------------------------------------------------------------------------
(* Startup: main(). *)

FilterTools_DropListed(config, ts) ==
    IF /\ ~config.allowAllTools
       /\ config.hasAllowedTools
       /\ Len(config.allowedTools) > 0
    THEN SelectSeq(ts, LAMBDA tool :
            ~\E i \in 1..Len(config.allowedTools) :
                config.allowedTools[i] = tool.name)
    ELSE ts

\* the allow-list filter of main
FilterTools(config, ts) ==
    IF /\ ~config.allowAllTools
       /\ config.hasAllowedTools
       /\ Len(config.allowedTools) > 0
    THEN SelectSeq(ts, LAMBDA tool :
            \E i \in 1..Len(config.allowedTools) :
                config.allowedTools[i] = tool.name)
    ELSE ts

\* [...medusaStoreService.defineTools(), ...medusaAdminService.defineTools()]
AssembleAll(storeTools, adminTools) == storeTools \o adminTools

\* the paths a document may hold, each with the path items it may have
StartupCatalog ==
    {[path |-> <<"/ping">>, item |->
        ("get" :> Operation("Ping", Description("ping"), TRUE, <<>>,
                            NullNode))],
     [path |-> <<"/ping">>, item |->
        ("get" :> Operation("", Description("ping"), TRUE, <<>>, NullNode))],
     [path |-> ItemPath, item |->
        ("get" :> Operation("GetItem", Description("get an item"), TRUE,
                    <<Parameter("id", "path", TypeNode("string"))>>, NullNode))
        @@ ("post" :> Operation("PostItem", Description("post an item"), TRUE,
                    <<Parameter("id", "path", TypeNode("string"))>>, RefA))],
     [path |-> ItemPath, item |->
        ("delete" :> Operation("DeleteItem", NoDescription, FALSE, <<>>,
                               NullNode))],
     [path |-> <<"/carts">>, item |->
        ("post" :> Operation("PostItem", Description("post an item"), FALSE,
                             <<>>, RefA))],
     [path |-> <<"/carts">>, item |->
        ("get" :> Operation("AdminPing", NoDescription, TRUE, <<>>,
                            NullNode))]}

\* sequences of up to n catalog entries with distinct paths
RECURSIVE PathSequences(_)
PathSequences(n) ==
    IF n = 0 THEN {<<>>}
    ELSE LET shorter == PathSequences(n - 1) IN
         shorter \cup
         UNION {{Append(ps, e) :
                    e \in {x \in StartupCatalog :
                            \A i \in 1..Len(ps) : ps[i].path # x.path}} :
                ps \in shorter}

StartupTable == (<<"A">> :> ObjectNode(TRUE, ItemProperties, TRUE, {"name"}))

\* allowed-tools.json
AllowedToolsConfigs ==
    {[allowAllTools |-> a, hasAllowedTools |-> FALSE, allowedTools |-> <<>>] :
        a \in BOOLEAN}
    \cup {[allowAllTools |-> a, hasAllowedTools |-> TRUE, allowedTools |-> l] :
        a \in BOOLEAN,
        l \in {<<>>, <<"AdminPing">>, <<"PostItem", "Ping", "AdminGetItem">>}}

Init ==
    /\ storeJson \in {[paths |-> ps, schemas |-> StartupTable] :
                        ps \in PathSequences(MaxPaths)}
    /\ adminJson \in {[paths |-> ps, schemas |-> StartupTable] :
                        ps \in PathSequences(MaxPaths)}
    /\ allowedToolsConfig \in AllowedToolsConfigs
    /\ pc = "start"
    /\ adminToken = ""
    /\ tools = <<>>
    /\ originalTools = <<>>
    /\ registered = <<>>
    /\ calls = {}
    /\ fetches = <<>>
    /\ settled = <<>>
    /\ thrown = ""
    /\ surface = "store"
    /\ prop = NullNode
    /\ makeOptional = TRUE
    /\ zod = NoZod

\* await medusaAdminService.init() resolves: the token is kept
Login ==
    /\ pc = "start"
    /\ adminToken' = "jwt"
    /\ pc' = "try"
    /\ UNCHANGED <<originalTools,
                   storeJson, adminJson, allowedToolsConfig, tools, registered,
                   calls, fetches, settled, thrown, surface, prop,
                   makeOptional, zod>>

\* await medusaAdminService.init() rejects: control goes to the catch block
LoginFails ==
    /\ pc = "start"
    /\ thrown' = "login failed"
    /\ pc' = "catch"
    /\ UNCHANGED <<originalTools,
                   storeJson, adminJson, allowedToolsConfig, adminToken, tools,
                   registered, calls, fetches, settled, surface, prop,
                   makeOptional, zod>>

\* the rest of the try block: both surfaces are compiled, the store's first;
\* an error thrown by either goes to the catch block
Assemble ==
    /\ pc = "try"
    /\ LET store == DefineTools("store")
           admin == DefineTools("admin")
       IN  IF store.threw
           THEN /\ thrown' = store.error /\ pc' = "catch" /\ tools' = tools
           ELSE IF admin.threw
           THEN /\ thrown' = admin.error /\ pc' = "catch" /\ tools' = tools
           ELSE /\ tools' = AssembleAll(store.tools, admin.tools)
                /\ pc' = "filter"
                /\ thrown' = thrown
    /\ UNCHANGED <<originalTools,
                   storeJson, adminJson, allowedToolsConfig, adminToken,
                   registered, calls, fetches, settled, surface, prop,
                   makeOptional, zod>>

\* the catch block: the store's tools alone; an error thrown here rejects
\* main(), whose .catch logs it and exits the process
Catch ==
    /\ pc = "catch"
    /\ LET store == DefineTools("store") IN
        IF store.threw
        THEN /\ thrown' = store.error /\ pc' = "exited" /\ tools' = tools
        ELSE /\ tools' = store.tools /\ pc' = "filter" /\ thrown' = thrown
    /\ UNCHANGED <<originalTools,
                   storeJson, adminJson, allowedToolsConfig, adminToken,
                   registered, calls, fetches, settled, surface, prop,
                   makeOptional, zod>>

Filter ==
    /\ pc = "filter"
    /\ originalTools' = tools
    /\ tools' = FilterTools(allowedToolsConfig, tools)
    /\ pc' = "register"
    /\ UNCHANGED <<storeJson, adminJson, allowedToolsConfig, adminToken,
                   registered, calls, fetches, settled, thrown, surface, prop,
                   makeOptional, zod>>

\* tools.forEach(server.tool(...))
Register ==
    /\ pc = "register"
    /\ registered' = tools
    /\ pc' = "listen"
    /\ UNCHANGED <<originalTools,
                   storeJson, adminJson, allowedToolsConfig, adminToken, tools,
                   calls, fetches, settled, thrown, surface, prop,
                   makeOptional, zod>>

\* app.listen(PORT): the server is up
Listen ==
    /\ pc = "listen"
    /\ pc' = "serving"
    /\ UNCHANGED <<originalTools,
                   storeJson, adminJson, allowedToolsConfig, adminToken, tools,
                   registered, calls, fetches, settled, thrown, surface, prop,
                   makeOptional, zod>>

\* app.listen(PORT) emits 'error': process.exit(1)
ListenError ==
    /\ pc = "listen"
    /\ thrown' = "Server error"
    /\ pc' = "exited"
    /\ UNCHANGED <<originalTools,
                   storeJson, adminJson, allowedToolsConfig, adminToken, tools,
                   registered, calls, fetches, settled, surface, prop,
                   makeOptional, zod>>

Next ==
    \/ Login \/ LoginFails \/ Assemble \/ Catch \/ Filter \/ Register
    \/ Listen \/ ListenError

Spec == Init /\ [][Next]_vars

-----------------------------------------------------------------------------
(* Properties of startup (checked under Spec). *)

\* the allow-list filter is in force
Filtering(config) ==
    /\ ~config.allowAllTools
    /\ config.hasAllowedTools
    /\ config.allowedTools # <<>>

\* positions of the tools of `ts` whose name the allow-list holds
AllowedPositions(config, ts) ==
    {j \in 1..Len(ts) :
        \E i \in 1..Len(config.allowedTools) :
            config.allowedTools[i] = ts[j].name}

\* `sub` is `ts` restricted to the positions `keep`, in the order of `ts`
IsRestriction(sub, ts, keep) ==
    /\ Len(sub) = Cardinality(keep)
    /\ \A i \in 1..Len(sub) :
        \E j \in keep :
            /\ Cardinality({k \in keep : k < j}) = i - 1
            /\ sub[i] = ts[j]

\* C6: with allowAllTools false and a non-empty allowedTools the registered
\* tools are the assembled tools whose name is listed, in their original
\* order; in every other case they are the assembled tools unmodified
C6_AllowListFilter ==
    pc \in {"listen", "serving"} =>
        IF Filtering(allowedToolsConfig)
        THEN IsRestriction(registered, originalTools,
                           AllowedPositions(allowedToolsConfig, originalTools))
        ELSE registered = originalTools

\* four assembled tools of which the second and the fourth are listed
C6_Witness ==
    /\ pc = "serving"
    /\ Filtering(allowedToolsConfig)
    /\ Len(originalTools) = 4
    /\ AllowedPositions(allowedToolsConfig, originalTools) = {2, 4}
    /\ registered = <<originalTools[2], originalTools[4]>>
    /\ registered[1].name # registered[2].name

\* every path of the surface's document compiles to a tool
Compiles(s) ==
    \A i \in 1..Len(JsonOf(s).paths) :
        ~wrapPath(s, JsonOf(s).paths[i].path, JsonOf(s).paths[i].item).threw

\* `ts` holds one tool of surface s for each path of its document, in
\* document order
ToolsOfSurface(ts, s) ==
    /\ Len(ts) = Len(JsonOf(s).paths)
    /\ \A i \in 1..Len(ts) :
        /\ ts[i].surface = s
        /\ ts[i].refPath = JsonOf(s).paths[i].path

\* the store's tools followed by the admin's, nothing removed
StoreThenAdmin(ts) ==
    /\ Len(ts) = Len(storeJson.paths) + Len(adminJson.paths)
    /\ ToolsOfSurface(SubSeq(ts, 1, Len(storeJson.paths)), "store")
    /\ ToolsOfSurface(SubSeq(ts, Len(storeJson.paths) + 1, Len(ts)), "admin")

\* startup ended in the fatal error of main().catch
Crashed == pc = "exited" /\ thrown # "Server error"

\* C7: after a failed login the store's tools alone are assembled and
\* startup goes on to registration without crashing (the store document
\* being one that compiles); after a successful login the assembled sequence
\* is the store's tools followed by the admin's, nothing removed
C7_AssemblyByLoginOutcome ==
    /\ (/\ pc \notin {"start", "try", "catch"}
        /\ adminToken = ""
        /\ Compiles("store")) => ~Crashed
    /\ (pc = "filter" /\ adminToken = "") => ToolsOfSurface(tools, "store")
    /\ (pc = "filter" /\ adminToken # "") => StoreThenAdmin(tools)

\* a path of the surface's document whose operation, chosen in the order
\* get, post, delete, has no identifier
HasNamelessOperation(s) ==
    \E i \in 1..Len(JsonOf(s).paths) :
        PrecedenceOperation(JsonOf(s).paths[i].item).operationId = ""

\* C8: when the operation chosen for a path of a document that is compiled
\* (the store's, or the admin's after a successful login) has no identifier,
\* startup ends in a fatal error: nothing is registered and the server does
\* not serve
C8_NamelessOperationIsFatal ==
    (\/ HasNamelessOperation("store")
     \/ adminToken # "" /\ HasNamelessOperation("admin"))
    => /\ registered = <<>>
       /\ pc \notin {"filter", "register", "listen", "serving"}

====
